---- MODULE Spec2Model ----
(***************************************************************************)
(* Model of the DVH extractor (src/DVH-Extractor.py): the line classifier, *)
(* the report parser parse_dvh_file, the batch loader parse_folder and the *)
(* two pivot writers write_patient_csvs / write_structure_csvs.            *)
(*                                                                         *)
(* Text is modelled character by character: a Python str is a tuple of     *)
(* one-character strings (the character U+00B3 is written "^3").  A Python *)
(* float is a decimal fixed-point number [neg, t, r] standing for          *)
(* (+/-)(t * 0.1 + r * 1e-10), 0 <= r < 10^9; the arithmetic on it is      *)
(* exact, the rounding error of binary doubles (below 1e-13 for the doses  *)
(* of the corpus) being far below the 1e-9 tolerance of the sampling       *)
(* filter.  A Python dict whose iteration order is observable is a         *)
(* sequence of entries [k, v] in insertion order; the DVH mapping, whose   *)
(* order is never observed, is a function.                                 *)
(***************************************************************************)
EXTENDS Integers, Sequences, FiniteSets, TLC

(* ------------------------------ bounds --------------------------------- *)
MaxFiles == 2        \* reports in the input directory
MaxLines == 3        \* lines of the streamed report of SpecParse

(* --------------------------- small helpers ----------------------------- *)
Range(s) == {s[k] : k \in DOMAIN s}

Digits == {"0", "1", "2", "3", "4", "5", "6", "7", "8", "9"}

DigitVal(c) ==
  CASE c = "0" -> 0 [] c = "1" -> 1 [] c = "2" -> 2 [] c = "3" -> 3
    [] c = "4" -> 4 [] c = "5" -> 5 [] c = "6" -> 6 [] c = "7" -> 7
    [] c = "8" -> 8 [] c = "9" -> 9

\* the characters matched by \s that occur in the modelled reports
WS == {" ", "\t"}

\* str.strip(): remove leading and trailing whitespace
RECURSIVE LStrip(_)
LStrip(s) == IF s # <<>> /\ Head(s) \in WS THEN LStrip(Tail(s)) ELSE s

RECURSIVE RStrip(_)
RStrip(s) ==
  IF s # <<>> /\ s[Len(s)] \in WS THEN RStrip(SubSeq(s, 1, Len(s) - 1)) ELSE s

Strip(s) == RStrip(LStrip(s))

\* length of the run of whitespace that starts at position p of s
RECURSIVE WsRun(_, _)
WsRun(s, p) == IF p <= Len(s) /\ s[p] \in WS THEN 1 + WsRun(s, p + 1) ELSE 0

(* --------------------------- line classifier --------------------------- *)
\* the match of  \s*:\s*  alone, without the alternative  \s{2,}
MatchLenColon(s, p) ==
  LET w == WsRun(s, p) IN
    IF p + w <= Len(s) /\ s[p + w] = ":"
    THEN w + 1 + WsRun(s, p + w + 1)
    ELSE 0

\* length of the match of  \s*:\s*|\s{2,}  that starts at position p (0: none)
MatchLen(s, p) ==
  LET w == WsRun(s, p) IN
    IF p + w <= Len(s) /\ s[p + w] = ":"
    THEN w + 1 + WsRun(s, p + w + 1)
    ELSE IF w >= 2 THEN w ELSE 0

\* position of the leftmost match, 0 when the pattern matches nowhere
SplitPos(s) ==
  LET hits == {p \in 1..Len(s) : MatchLen(s, p) > 0} IN
    IF hits = {} THEN 0 ELSE CHOOSE p \in hits : \A q \in hits : p <= q

\* re.split(r'\s*:\s*|\s{2,}', line, 1)
SplitOnce(s) ==
  LET p == SplitPos(s) IN
    IF p = 0 THEN <<s>>
    ELSE <<SubSeq(s, 1, p - 1), SubSeq(s, p + MatchLen(s, p), Len(s))>>

\* key = parts[0].strip()
KeyOf(s) == Strip(SplitOnce(s)[1])

\* val = parts[1].strip() if len(parts) > 1, else the empty string
ValOf(s) == LET parts == SplitOnce(s) IN
  IF Len(parts) > 1 THEN Strip(parts[2]) ELSE <<>>

\* re.split(r'\s+', line): the maximal runs of non-whitespace characters
RECURSIVE SplitWs(_)
SplitWs(s) ==
  LET t == LStrip(s) IN
    IF t = <<>> THEN <<>>
    ELSE LET ws == {p \in 1..Len(t) : t[p] \in WS}
             e == IF ws = {} THEN Len(t) + 1
                  ELSE CHOOSE p \in ws : \A q \in ws : p <= q
         IN <<SubSeq(t, 1, e - 1)>> \o SplitWs(SubSeq(t, e, Len(t)))

\* re.match(r'^[0-9.]+$', key)
IsNumericKey(key) == key # <<>> /\ \A k \in DOMAIN key : key[k] \in Digits \cup {"."}

(* ------------------------------- floats -------------------------------- *)
Unit    == 1000000000   \* number of 1e-10 units in 0.1
Tol     == 10           \* 1e-9 in 1e-10 units
FracLen == 10           \* fractional digits a float of the model keeps

ValueError == [error |-> "ValueError"]

Zero == [neg |-> FALSE, t |-> 0, r |-> 0]

RECURSIVE DigitsVal(_)
DigitsVal(ds) ==
  IF ds = <<>> THEN 0 ELSE 10 * DigitsVal(SubSeq(ds, 1, Len(ds) - 1)) + DigitVal(ds[Len(ds)])

\* the digit string fs padded with zeros (or cut) to exactly n digits
PadRight(fs, n) == [k \in 1..n |-> IF k <= Len(fs) THEN fs[k] ELSE "0"]

\* float(tok) for the decimal literals [+-]?(D+(.D*)?|.D+); everything else
\* over the alphabet of the reports raises ValueError
ParseFloat(tok) ==
  LET signed == tok # <<>> /\ tok[1] \in {"+", "-"}
      body   == IF signed THEN Tail(tok) ELSE tok
      dots   == {p \in DOMAIN body : body[p] = "."}
      dot    == IF dots = {} THEN Len(body) + 1 ELSE CHOOSE p \in dots : TRUE
      ip     == SubSeq(body, 1, dot - 1)
      fp     == SubSeq(body, dot + 1, Len(body))
      wellFormed ==
        /\ Cardinality(dots) <= 1
        /\ Len(ip) + Len(fp) >= 1
        /\ \A k \in DOMAIN body : body[k] \in Digits \cup {"."}
  IN IF ~wellFormed THEN ValueError
     ELSE LET f  == PadRight(fp, FracLen)
              tt == 10 * DigitsVal(ip) + DigitVal(f[1])
              rr == DigitsVal(SubSeq(f, 2, FracLen))
          IN IF tt = 0 /\ rr = 0 THEN Zero
             ELSE [neg |-> signed /\ tok[1] = "-", t |-> tt, r |-> rr]

\* dose % d_interval for a positive interval of iv tenths (Python's floored
\* modulo: the result lies in [0, interval))
FloatMod(x, iv) ==
  LET m == [neg |-> FALSE, t |-> x.t % iv, r |-> x.r] IN
    IF ~x.neg \/ (m.t = 0 /\ m.r = 0) THEN m
    ELSE IF m.r = 0 THEN [neg |-> FALSE, t |-> iv - m.t, r |-> 0]
         ELSE [neg |-> FALSE, t |-> iv - m.t - 1, r |-> Unit - m.r]

\* abs(m) < 1e-9 or abs(m - d_interval) < 1e-9, for m in [0, d_interval)
NearMultiple(m, iv) ==
  \/ m.t = 0 /\ m.r < Tol
  \/ m.t = iv - 1 /\ Unit - m.r < Tol

\* numeric order of floats
FloatLess(a, b) ==
  IF a.neg # b.neg THEN a.neg
  ELSE IF a.neg THEN (b.t < a.t \/ (b.t = a.t /\ b.r < a.r))
       ELSE (a.t < b.t \/ (a.t = b.t /\ a.r < b.r))

(* ----------------------- strings and their order ----------------------- *)
\* the printable ASCII characters, in code point order from U+0020 (the
\* grave accent, which no report of the model contains, by its code point)
Ascii ==
  <<" ", "!", "\"", "#", "$", "%", "&", "'", "(", ")", "*", "+",
    ",", "-", ".", "/", "0", "1", "2", "3", "4", "5", "6", "7",
    "8", "9", ":", ";", "<", "=", ">", "?", "@", "A", "B", "C",
    "D", "E", "F", "G", "H", "I", "J", "K", "L", "M", "N", "O",
    "P", "Q", "R", "S", "T", "U", "V", "W", "X", "Y", "Z", "[",
    "\\", "]", "^", "_", "U+0060", "a", "b", "c", "d", "e", "f", "g",
    "h", "i", "j", "k", "l", "m", "n", "o", "p", "q", "r", "s",
    "t", "u", "v", "w", "x", "y", "z", "{", "|", "}", "~">>

\* ord(c)
Ord(c) ==
  IF c = "\t" THEN 9
  ELSE IF c = "^3" THEN 179
  ELSE 31 + (CHOOSE k \in DOMAIN Ascii : Ascii[k] = c)

\* a < b for Python str: lexicographic by code point
RECURSIVE StrLess(_, _)
StrLess(a, b) ==
  IF b = <<>> THEN FALSE
  ELSE IF a = <<>> THEN TRUE
  ELSE IF a[1] = b[1] THEN StrLess(Tail(a), Tail(b))
  ELSE Ord(a[1]) < Ord(b[1])

\* sorted(names) for a collection of distinct strings
RECURSIVE SortedStrs(_)
SortedStrs(S) ==
  IF S = {} THEN <<>>
  ELSE LET m == CHOOSE x \in S : \A y \in S \ {x} : StrLess(x, y)
       IN <<m>> \o SortedStrs(S \ {m})

\* sorted(doses) for a set of floats
RECURSIVE SortedFloats(_)
SortedFloats(S) ==
  IF S = {} THEN <<>>
  ELSE LET m == CHOOSE x \in S : \A y \in S \ {x} : FloatLess(x, y)
       IN <<m>> \o SortedFloats(S \ {m})

(* ------------------- dicts that keep insertion order ------------------- *)
DictKeys(d) == [j \in DOMAIN d |-> d[j].k]

DictHas(d, key) == \E j \in DOMAIN d : d[j].k = key

DictGet(d, key) == d[CHOOSE j \in DOMAIN d : d[j].k = key].v

\* d[key] = val: an existing key keeps its position, a new key goes last
DictPut(d, key, val) ==
  IF DictHas(d, key)
  THEN [j \in DOMAIN d |-> IF d[j].k = key THEN [k |-> key, v |-> val] ELSE d[j]]
  ELSE Append(d, [k |-> key, v |-> val])

(* ------------------------- keys of the reports ------------------------- *)
KeyPatientName    == <<"P", "a", "t", "i", "e", "n", "t", " ", "N", "a", "m", "e">>
KeyPatientID      == <<"P", "a", "t", "i", "e", "n", "t", " ", "I", "D">>
KeyPrescribedDose ==
  <<"P", "r", "e", "s", "c", "r", "i", "b", "e", "d", " ", "d", "o", "s", "e", " ", "[", "G", "y", "]">>
KeyStructure      == <<"S", "t", "r", "u", "c", "t", "u", "r", "e">>
KeyVolume         == <<"V", "o", "l", "u", "m", "e", " ", "[", "c", "m", "^3", "]">>
KeyMinDose        == <<"M", "i", "n", " ", "D", "o", "s", "e", " ", "[", "%", "]">>
KeyMaxDose        == <<"M", "a", "x", " ", "D", "o", "s", "e", " ", "[", "%", "]">>
KeyMeanDose       == <<"M", "e", "a", "n", " ", "D", "o", "s", "e", " ", "[", "%", "]">>
KeyStructures     == <<"s", "t", "r", "u", "c", "t", "u", "r", "e", "s">>
KeyDvh            == <<"d", "v", "h">>

StatKeys == {KeyVolume, KeyMinDose, KeyMaxDose, KeyMeanDose}

\* current_structure = None
None == <<"None">>

(* --------------------------- parse_dvh_file ---------------------------- *)
\* the sampling intervals of the combobox, in tenths
Intervals == {1, 5, 10, 50, 100}

DoseTypes == {"%", "Gy"}

\* dose_col_index = 0 if dose_type == "%" else 1
DoseColIndex(dt) == IF dt = "%" THEN 0 ELSE 1

\* a filter that tests against the interval 0.1 whatever interval is selected
RetainedAtTenth(dose, iv) == NearMultiple(FloatMod(dose, 1), 1)

\* the sampling filter of a parsed dose
Retained(dose, iv) == NearMultiple(FloatMod(dose, iv), iv)

\* patient_data = {structures: {}} and current_structure = None
NewParse == [patient_data |-> (KeyStructures :> <<>>), current_structure |-> None]

\* patient_data[key] = val
SetField(pd, key, val) == (key :> val) @@ pd

\* elif current_structure: None and the empty string are both false
Truthy(cs) == cs # None /\ cs # <<>>

\* a try block that stores the volume zero when the last token is no number
DvhRowZeroVolume(line, iv, col) ==
  LET dvh_values == SplitWs(line) IN
    IF col + 1 > Len(dvh_values) THEN [error |-> "IndexError"]
    ELSE LET dose == ParseFloat(dvh_values[col + 1]) IN
      IF dose = ValueError THEN ValueError
      ELSE IF Retained(dose, iv)
           THEN [dose |-> dose,
                 volume |-> IF ParseFloat(dvh_values[Len(dvh_values)]) = ValueError
                            THEN Zero ELSE ParseFloat(dvh_values[Len(dvh_values)])]
           ELSE [error |-> "filtered"]

\* the try block of a DVH row: the (dose, volume) pair to store, or the
\* reason why nothing is stored
DvhRow(line, iv, col) ==
  LET dvh_values == SplitWs(line) IN
    IF col + 1 > Len(dvh_values) THEN [error |-> "IndexError"]
    ELSE LET dose == ParseFloat(dvh_values[col + 1]) IN
      IF dose = ValueError THEN ValueError
      ELSE LET volume == ParseFloat(dvh_values[Len(dvh_values)]) IN
        IF volume = ValueError THEN ValueError
        ELSE IF Retained(dose, iv)
             THEN [dose |-> dose, volume |-> volume]
             ELSE [error |-> "filtered"]

\* dvh.setdefault(dose, volume): a dose that is already a key keeps its volume
StoreSampleKeepFirst(dvh, dose, volume) == dvh @@ (dose :> volume)

\* dvh[dose] = volume: a dose that is already a key gets the new volume
StoreSample(dvh, dose, volume) == (dose :> volume) @@ dvh

\* the body of the loop over the lines of a report
ParseLine(st, raw, iv, col) ==
  LET line == Strip(raw)
      key  == KeyOf(line)
      val  == ValOf(line)
      pd   == st.patient_data
      cs   == st.current_structure
      strs == pd[KeyStructures]
  IN
    IF line = <<>> THEN st
    ELSE IF key \in {KeyPatientName, KeyPatientID, KeyPrescribedDose}
      THEN [st EXCEPT !.patient_data = SetField(pd, key, val)]
    ELSE IF key = KeyStructure
      THEN [patient_data |->
              [pd EXCEPT ![KeyStructures] = DictPut(strs, val, (KeyDvh :> <<>>))],
            current_structure |-> val]
    ELSE IF Truthy(cs)
      THEN IF key \in StatKeys
        THEN [st EXCEPT !.patient_data[KeyStructures] =
                DictPut(strs, cs, SetField(DictGet(strs, cs), key, val))]
        ELSE IF IsNumericKey(key)
          THEN LET row == DvhRow(line, iv, col) IN
            IF "error" \in DOMAIN row THEN st
            ELSE [st EXCEPT !.patient_data[KeyStructures] =
                    DictPut(strs, cs,
                      [DictGet(strs, cs) EXCEPT
                         ![KeyDvh] = StoreSample(@, row.dose, row.volume)])]
          ELSE st
      ELSE st

\* parse_dvh_file: the record after the last line of the report
RECURSIVE ParseLines(_, _, _, _)
ParseLines(st, lines, iv, col) ==
  IF lines = <<>> THEN st
  ELSE ParseLines(ParseLine(st, Head(lines), iv, col), Tail(lines), iv, col)

parse_dvh_file(lines, iv, col) == ParseLines(NewParse, lines, iv, col).patient_data

(* ------------------------------ the lines ------------------------------ *)
\* Patient ID : P1
LnPatientID1 ==
  <<"P", "a", "t", "i", "e", "n", "t", " ", "I", "D", " ", ":", " ", "P",
    "1">>

\* Patient ID  P1   (two spaces, no colon)
LnPatientID1b ==
  <<"P", "a", "t", "i", "e", "n", "t", " ", "I", "D", " ", " ", "P", "1">>

\* Patient ID : P2
LnPatientID2 ==
  <<"P", "a", "t", "i", "e", "n", "t", " ", "I", "D", " ", ":", " ", "P",
    "2">>

\* Patient ID : P3
LnPatientID3 ==
  <<"P", "a", "t", "i", "e", "n", "t", " ", "I", "D", " ", ":", " ", "P",
    "3">>

\* Patient ID : P4
LnPatientID4 ==
  <<"P", "a", "t", "i", "e", "n", "t", " ", "I", "D", " ", ":", " ", "P",
    "4">>

\* Patient ID : structure_PTV_1_A   (an identifier that reads like a structure file)
LnPatientID5 ==
  <<"P", "a", "t", "i", "e", "n", "t", " ", "I", "D", " ", ":", " ",
    "s", "t", "r", "u", "c", "t", "u", "r", "e", "_", "P", "T", "V", "_", "1", "_", "A">>

\* Patient Name  A
LnNameA ==
  <<"P", "a", "t", "i", "e", "n", "t", " ", "N", "a", "m", "e", " ", " ",
    "A">>

\* Patient Name : B
LnNameB ==
  <<"P", "a", "t", "i", "e", "n", "t", " ", "N", "a", "m", "e", " ", ":",
    " ", "B">>

\* Prescribed dose [Gy] : 60
LnPrescribed ==
  <<"P", "r", "e", "s", "c", "r", "i", "b", "e", "d", " ", "d", "o", "s",
    "e", " ", "[", "G", "y", "]", " ", ":", " ", "6", "0">>

\* Structure : PTV
LnStructPTV ==
  <<"S", "t", "r", "u", "c", "t", "u", "r", "e", " ", ":", " ", "P", "T",
    "V">>

\* Structure  PTV
LnStructPTVb ==
  <<"S", "t", "r", "u", "c", "t", "u", "r", "e", " ", " ", "P", "T", "V">>

\* Structure : OAR
LnStructOAR ==
  <<"S", "t", "r", "u", "c", "t", "u", "r", "e", " ", ":", " ", "O", "A",
    "R">>

\* Structure : BODY
LnStructBODY ==
  <<"S", "t", "r", "u", "c", "t", "u", "r", "e", " ", ":", " ", "B", "O",
    "D", "Y">>

\* Structure   (a bare section header)
LnStructBare ==
  <<"S", "t", "r", "u", "c", "t", "u", "r", "e">>

\* Structure : PTV/1:A
LnStructSlash ==
  <<"S", "t", "r", "u", "c", "t", "u", "r", "e", " ", ":", " ", "P", "T",
    "V", "/", "1", ":", "A">>

\* Structure : a\*?b   (backslash, asterisk, question mark)
LnStructSpecial1 ==
  <<"S", "t", "r", "u", "c", "t", "u", "r", "e", " ", ":", " ", "a", "\\",
    "*", "?", "b">>

\* Structure : "<>|   (double quote, angle brackets, bar)
LnStructSpecial2 ==
  <<"S", "t", "r", "u", "c", "t", "u", "r", "e", " ", ":", " ", "\"", "<",
    ">", "|">>

\* Volume [cm3] : 12.5   (with U+00B3)
LnVolume ==
  <<"V", "o", "l", "u", "m", "e", " ", "[", "c", "m", "^3", "]", " ", ":",
    " ", "1", "2", ".", "5">>

\* Mean Dose [%]  48.7
LnMeanDose ==
  <<"M", "e", "a", "n", " ", "D", "o", "s", "e", " ", "[", "%", "]", " ",
    " ", "4", "8", ".", "7">>

\* 50 10.0 95.2   (single spaces)
LnRowSingle ==
  <<"5", "0", " ", "1", "0", ".", "0", " ", "9", "5", ".", "2">>

\* 50.3 10.06 80.0   (single spaces)
LnRowSingle2 ==
  <<"5", "0", ".", "3", " ", "1", "0", ".", "0", "6", " ", "8", "0", ".",
    "0">>

\* 50  10.0  95.2
LnRow50 ==
  <<"5", "0", " ", " ", "1", "0", ".", "0", " ", " ", "9", "5", ".", "2">>

\* 50.0  10  90.1   (the same doses as LnRow50, another volume)
LnRow50b ==
  <<"5", "0", ".", "0", " ", " ", "1", "0", " ", " ", "9", "0", ".", "1">>

\* 50.3  10.06  80.0
LnRow503 ==
  <<"5", "0", ".", "3", " ", " ", "1", "0", ".", "0", "6", " ", " ", "8",
    "0", ".", "0">>

\* 55  5  70.0   (with leading and trailing blanks)
LnRow55 ==
  <<" ", "5", "5", " ", " ", "5", " ", " ", "7", "0", ".", "0", " ">>

\* 60<TAB><TAB>10  60.5
LnRow60 ==
  <<"6", "0", "\t", "\t", "1", "0", " ", " ", "6", "0", ".", "5">>

\* 50.0000000005  10.0000000005  70.0   (5e-10 above a multiple)
LnRowNearLow ==
  <<"5", "0", ".", "0", "0", "0", "0", "0", "0", "0", "0", "0", "5", " ",
    " ", "1", "0", ".", "0", "0", "0", "0", "0", "0", "0", "0", "0", "5",
    " ", " ", "7", "0", ".", "0">>

\* 49.9999999995  9.9999999995  65.0   (5e-10 below a multiple)
LnRowNearHigh ==
  <<"4", "9", ".", "9", "9", "9", "9", "9", "9", "9", "9", "9", "5", " ",
    " ", "9", ".", "9", "9", "9", "9", "9", "9", "9", "9", "9", "5", " ",
    " ", "6", "5", ".", "0">>

\* 0.3  0.3  60.0
LnRow03 ==
  <<"0", ".", "3", " ", " ", "0", ".", "3", " ", " ", "6", "0", ".", "0">>

\* 75  15.0  x   (the last token is no number)
LnRowBadVolume ==
  <<"7", "5", " ", " ", "1", "5", ".", "0", " ", " ", "x">>

\* 75   (one token only)
LnRowShort ==
  <<"7", "5">>

\* 1.2.3  4  5   (the first token is no number)
LnRowBadDose ==
  <<"1", ".", "2", ".", "3", " ", " ", "4", " ", " ", "5">>

\* a line of blanks
LnBlank ==
  <<" ", " ", " ">>

\* DVH data   (no key of the format)
LnNoise ==
  <<"D", "V", "H", " ", "d", "a", "t", "a">>

\* Structure : PTV:1/A
LnStructColon ==
  <<"S", "t", "r", "u", "c", "t", "u", "r", "e", " ", ":", " ",
    "P", "T", "V", ":", "1", "/", "A">>

\* Patient Name  :  A  B : C   (blanks around the colon, separators in the value)
LnNameSpaced ==
  <<"P", "a", "t", "i", "e", "n", "t", " ", "N", "a", "m", "e", " ", " ", ":", " ", " ",
    "A", " ", " ", "B", " ", ":", " ", "C">>

\* the lines a streamed report is drawn from
Lines ==
  {LnPatientID1, LnNameSpaced, LnNameA, LnPrescribed, LnStructPTV, LnStructOAR, LnStructBare,
   LnVolume, LnRowSingle, LnRow50, LnRow50b, LnRow503, LnRow55, LnRow60,
   LnRowNearLow, LnRowNearHigh, LnRow03, LnRowBadVolume, LnRowShort,
   LnRowBadDose, LnBlank, LnNoise}

(* ----------------------------- the reports ----------------------------- *)
\* the report of the worked example: single-spaced rows in section PTV
ReportExample == <<LnPatientID1, LnStructPTV, LnRowSingle, LnRowSingle2>>

\* patient P1 again, with a name, a repeated dose and a filtered row
ReportP1 == <<LnPatientID1b, LnNameA, LnStructPTVb, LnRow50, LnRow50b, LnRow503>>

\* patient P2: two structures with different dose sets and statistics
ReportP2 ==
  <<LnPatientID2, LnPrescribed, LnStructOAR, LnVolume, LnRow55, LnStructPTV,
    LnMeanDose, LnRow60, LnRowBadVolume>>

\* a report without a Patient ID line
ReportNoID == <<LnNameB, LnStructPTV, LnRow50>>

\* patient P3: no structure at all
ReportP3 == <<LnPatientID3, LnBlank, LnNoise>>

\* patient P4: a structure with a sample and two structures without any
ReportP4 ==
  <<LnPatientID4, LnStructPTV, LnRow50, LnStructBODY, LnVolume, LnStructBare, LnRow50>>

\* patient structure_PTV_1_A: structure names with characters that file names
\* forbid, two of them different only in such characters
ReportP5 ==
  <<LnPatientID5, LnStructSlash, LnRow50, LnStructSpecial1, LnRow55,
    LnStructSpecial2, LnRow60, LnStructColon, LnRow60>>

Reports == {ReportExample, ReportP1, ReportP2, ReportNoID, ReportP3, ReportP4, ReportP5}

\* the contents of the input directory: up to MaxFiles reports, in glob order
RECURSIVE SeqsUpTo(_, _)
SeqsUpTo(S, n) ==
  IF n = 0 THEN {<<>>}
  ELSE LET shorter == SeqsUpTo(S, n - 1) IN
    shorter \cup {Append(q, e) : q \in {w \in shorter : Len(w) = n - 1}, e \in S}

Directories == SeqsUpTo(Reports, MaxFiles)

(* ------------------------------ CSV files ------------------------------ *)
\* the cells handed to csv.writer: a str or a float
Text(chars) == [s |-> chars]
Num(x)      == [f |-> x]
Empty       == Text(<<>>)

TxtCsv           == <<".", "c", "s", "v">>
TxtStructurePfx  == <<"s", "t", "r", "u", "c", "t", "u", "r", "e", "_">>
TxtDose          == <<"D", "o", "s", "e", " ">>
TxtVolumeSfx     == <<"_", "V", "o", "l", "u", "m", "e", " ", "[", "%", "]">>
TxtStructureName == <<"S", "t", "r", "u", "c", "t", "u", "r", "e", " ", "N", "a", "m", "e">>
TxtPercent       == <<"[", "%", "]">>
TxtGy            == <<"[", "G", "y", "]">>

\* dose_unit = "[%]" if dose_type == "%" else "[Gy]"
DoseUnit(dt) == IF dt = "%" THEN TxtPercent ELSE TxtGy

\* a lookup that writes the text None for a missing key
GetOrNone(d, key) == IF key \in DOMAIN d THEN Text(d[key]) ELSE Text(None)

\* d.get(key, '') as a cell
GetOrEmpty(d, key) == IF key \in DOMAIN d THEN Text(d[key]) ELSE Empty

\* dvh.get(dose, '') as a cell
VolumeCell(dvh, dose) == IF dose \in DOMAIN dvh THEN Num(dvh[dose]) ELSE Empty

(* -------------------------- write_patient_csvs ------------------------- *)
\* the doses of the first structure only, without the union over the others
PatientDosesOfFirst(structures) ==
  IF structures = <<>> THEN {} ELSE DOMAIN structures[1].v[KeyDvh]

\* the union of the doses of all structures of one patient
PatientDoses(structures) ==
  UNION {DOMAIN structures[j].v[KeyDvh] : j \in DOMAIN structures}

\* sorted(structures.keys())
StructureNames(structures) == SortedStrs(Range(DictKeys(structures)))

\* the rows of the file of one patient
PatientRows(data, dt) ==
  LET structures      == data[KeyStructures]
      structure_names == StructureNames(structures)
      sorted_doses    == SortedFloats(PatientDoses(structures))
      stats_header    == <<Text(TxtStructureName), Text(KeyVolume), Text(KeyMinDose),
                           Text(KeyMaxDose), Text(KeyMeanDose)>>
      stats_rows == [n \in DOMAIN structure_names |->
                       LET str_data == DictGet(structures, structure_names[n]) IN
                         <<Text(structure_names[n]), GetOrEmpty(str_data, KeyVolume),
                           GetOrEmpty(str_data, KeyMinDose), GetOrEmpty(str_data, KeyMaxDose),
                           GetOrEmpty(str_data, KeyMeanDose)>>]
      dvh_header == <<Text(TxtDose \o DoseUnit(dt))>> \o
                    [n \in DOMAIN structure_names |-> Text(structure_names[n] \o TxtVolumeSfx)]
      dvh_rows == [m \in DOMAIN sorted_doses |->
                     <<Num(sorted_doses[m])>> \o
                     [n \in DOMAIN structure_names |->
                        VolumeCell(DictGet(structures, structure_names[n])[KeyDvh],
                                   sorted_doses[m])]]
  IN <<<<Text(KeyPatientName), GetOrEmpty(data, KeyPatientName)>>,
       <<Text(KeyPatientID), GetOrEmpty(data, KeyPatientID)>>,
       <<Text(KeyPrescribedDose), GetOrEmpty(data, KeyPrescribedDose)>>,
       <<>>,
       stats_header>>
     \o stats_rows \o <<<<>>>> \o <<dvh_header>> \o dvh_rows

\* a writer that does not skip the records without structures
RECURSIVE PatientFilesAll(_, _)
PatientFilesAll(batch, dt) ==
  IF batch = <<>> THEN <<>>
  ELSE <<[by |-> "write_patient_csvs", name |-> Head(batch).k \o TxtCsv,
          rows |-> PatientRows(Head(batch).v, dt)]>>
       \o PatientFilesAll(Tail(batch), dt)

\* the files written for the patients of the batch, in the order of writing
RECURSIVE PatientFiles(_, _)
PatientFiles(batch, dt) ==
  IF batch = <<>> THEN <<>>
  ELSE LET patient_id == Head(batch).k
           data       == Head(batch).v
       IN (IF data[KeyStructures] = <<>> THEN <<>>
           ELSE <<[by |-> "write_patient_csvs", name |-> patient_id \o TxtCsv,
                   rows |-> PatientRows(data, dt)]>>)
          \o PatientFiles(Tail(batch), dt)

(* ------------------------- write_structure_csvs ------------------------ *)
\* the character class without the backslash
ForbiddenNoBackslash == {"/", ":", "*", "?", "\"", "<", ">", "|"}

\* the characters the file name of a structure must not contain
Forbidden == {"\\", "/", ":", "*", "?", "\"", "<", ">", "|"}

\* re.sub(r'[\\/:*?"<>|]', '_', str_name)
RECURSIVE Sanitize(_)
Sanitize(str_name) ==
  IF str_name = <<>> THEN <<>>
  ELSE <<IF Head(str_name) \in Forbidden THEN "_" ELSE Head(str_name)>>
       \o Sanitize(Tail(str_name))

\* list(all_patients_data.keys()): the identifiers in insertion order
PatientIdsUnsorted(batch) == DictKeys(batch)

\* sorted(list(all_patients_data.keys()))
PatientIds(batch) == SortedStrs(Range(DictKeys(batch)))

\* the loop over the samples of one structure of one patient:
\* structure_data[str_name][pid][dose] = volume.  The defaultdict creates the
\* entry of str_name when the first sample is stored.
AddSamples(structure_data, pid, str_name, dvh) ==
  IF DOMAIN dvh = {} THEN structure_data
  ELSE LET patients == IF DictHas(structure_data, str_name)
                       THEN DictGet(structure_data, str_name) ELSE <<>>
           old      == IF pid \in DOMAIN patients THEN patients[pid] ELSE <<>>
       IN DictPut(structure_data, str_name, (pid :> (dvh @@ old)) @@ patients)

\* the loop over the structures of one patient
RECURSIVE RegroupPatient(_, _, _)
RegroupPatient(structure_data, pid, structures) ==
  IF structures = <<>> THEN structure_data
  ELSE RegroupPatient(
         AddSamples(structure_data, pid, Head(structures).k, Head(structures).v[KeyDvh]),
         pid, Tail(structures))

\* the loop over the patients: structure name -> patient ID -> dose -> volume
RECURSIVE Regroup(_, _)
Regroup(structure_data, batch) ==
  IF batch = <<>> THEN structure_data
  ELSE Regroup(RegroupPatient(structure_data, Head(batch).k, Head(batch).v[KeyStructures]),
               Tail(batch))

\* all_doses: every dose of every structure of every patient
BatchDoses(batch) == UNION {PatientDoses(batch[j].v[KeyStructures]) : j \in DOMAIN batch}

\* the rows of the file of one structure
StructureRows(patients, patient_ids, sorted_doses, dt) ==
  <<<<Text(TxtDose \o DoseUnit(dt))>> \o [n \in DOMAIN patient_ids |-> Text(patient_ids[n])]>>
  \o [m \in DOMAIN sorted_doses |->
        <<Num(sorted_doses[m])>> \o
        [n \in DOMAIN patient_ids |->
           IF patient_ids[n] \in DOMAIN patients
           THEN VolumeCell(patients[patient_ids[n]], sorted_doses[m])
           ELSE Empty]]

\* the files written for the structures of the batch, in the order of writing
StructureFiles(batch, dt) ==
  LET structure_data == Regroup(<<>>, batch)
      patient_ids    == PatientIds(batch)
      sorted_doses   == SortedFloats(BatchDoses(batch))
  IN [j \in DOMAIN structure_data |->
        [by |-> "write_structure_csvs",
         name |-> TxtStructurePfx \o Sanitize(structure_data[j].k) \o TxtCsv,
         rows |-> StructureRows(structure_data[j].v, patient_ids, sorted_doses, dt)]]

(* ------------- write_structure_csvs of dvh2_csv_improved.py ------------ *)
\* The two source files have the same parse_folder, parse_dvh_file and
\* write_patient_csvs, statement for statement; they differ in
\* write_structure_csvs, where dvh2_csv_improved.py takes the identifiers as
\* list(all_patients_data.keys()) and reads data['structures'], a key every
\* record of parse_dvh_file has.
PatientIdsImproved(batch) == DictKeys(batch)

\* the files write_structure_csvs of dvh2_csv_improved.py writes, in the
\* order of writing
StructureFilesImproved(batch, dt) ==
  LET structure_data == Regroup(<<>>, batch)
      patient_ids    == PatientIdsImproved(batch)
      sorted_doses   == SortedFloats(BatchDoses(batch))
  IN [j \in DOMAIN structure_data |->
        [by |-> "write_structure_csvs",
         name |-> TxtStructurePfx \o Sanitize(structure_data[j].k) \o TxtCsv,
         rows |-> StructureRows(structure_data[j].v, patient_ids, sorted_doses, dt)]]

(* ------------------------------ the state ------------------------------ *)
VARIABLES
  txt_files,          \* parse_folder: the reports of the input directory
  d_interval,         \* the sampling interval, in tenths
  dose_type,          \* "%" or "Gy"
  is_patient_wise,    \* checkbox: one CSV per patient
  is_structure_wise,  \* checkbox: one CSV per structure
  pc,                 \* position of conversion_thread
  i,                  \* parse_folder: number of reports parsed
  returned,           \* parse_folder: the records parse_dvh_file has returned
  all_patients_data,  \* the batch: patient ID -> record, in insertion order
  patient_data,       \* parse_dvh_file: the record under construction
  current_structure,  \* parse_dvh_file: the cursor
  line,               \* parse_dvh_file: the line read last
  line_no,            \* parse_dvh_file: number of lines read
  before,             \* parse_dvh_file: the record before the line read last
  written,            \* the files written, in order: [by, name, rows]
  thread_queue,       \* the messages put on the queue
  input_dir,          \* the text of the input folder entry
  output_dir,         \* the text of the output folder entry
  run_button,         \* state of the run button
  status_label,       \* text of the status label
  progress_var,       \* the progress, as the fraction [n, d]
  shown,              \* the dialogs run_conversion has shown
  config_file,        \* the settings file: the saved folders, or None
  calls,              \* the functions conversion_thread has called
  total_tasks,        \* conversion_thread: the number of pivots read at its line 209
  task_count,         \* conversion_thread: the number of writers started
  validated           \* the two checkboxes as run_conversion has read them

vars == <<txt_files, d_interval, dose_type, is_patient_wise, is_structure_wise, pc, i,
          returned, all_patients_data, patient_data, current_structure, line, line_no,
          before, written, thread_queue, input_dir, output_dir, run_button,
          status_label, progress_var, shown, config_file, calls, total_tasks,
          task_count, validated>>

config  == <<d_interval, dose_type, is_patient_wise, is_structure_wise>>
parser  == <<patient_data, current_structure, line, line_no, before>>
outputs == <<written, thread_queue>>
paths   == <<input_dir, output_dir>>
widgets == <<run_button, status_label, progress_var>>
tasks   == <<total_tasks, task_count>>

\* what an entry can hold: nothing, a path that is not a folder, a folder
PathKinds == {"", "not a folder", "folder"}

\* a check that takes every non-empty path for a folder
IsDirAny(p) == p # ""

\* Path(p).is_dir()
IsDir(p) == p = "folder"

Fraction(n, d) == [n |-> n, d |-> d]

(* --------------------- the conversion of a directory ------------------- *)
\* the window is up and the run button has not been pressed
Init ==
  /\ input_dir \in PathKinds
  /\ output_dir \in PathKinds
  /\ txt_files = <<>>
  /\ d_interval \in Intervals
  /\ dose_type \in DoseTypes
  /\ is_patient_wise \in BOOLEAN
  /\ is_structure_wise \in BOOLEAN
  /\ run_button = "normal"
  /\ status_label = "Ready"
  /\ progress_var = Fraction(0, 1)
  /\ shown = <<>>
  /\ config_file = <<>>
  /\ calls = <<>>
  /\ total_tasks = 0
  /\ task_count = 0
  /\ validated = <<>>
  /\ pc = "idle"
  /\ i = 0
  /\ returned = <<>>
  /\ all_patients_data = <<>>
  /\ patient_data = NewParse.patient_data
  /\ current_structure = None
  /\ line = <<>>
  /\ line_no = 0
  /\ before = NewParse.patient_data
  /\ written = <<>>
  /\ thread_queue = <<>>

\* a loader that files a record without identifier under the empty identifier
StoreRecordDefaultId(batch, record) ==
  DictPut(batch,
          IF KeyPatientID \in DOMAIN record THEN record[KeyPatientID] ELSE <<>>,
          record)

\* a loader that merges a record into the one already stored for its identifier
StoreRecordMerge(batch, record) ==
  IF KeyPatientID \in DOMAIN record
  THEN DictPut(batch, record[KeyPatientID],
               IF DictHas(batch, record[KeyPatientID])
               THEN record @@ DictGet(batch, record[KeyPatientID])
               ELSE record)
  ELSE batch

\* if patient_data and 'Patient ID' in patient_data: store under the ID
StoreRecord(batch, record) ==
  IF KeyPatientID \in DOMAIN record
  THEN DictPut(batch, record[KeyPatientID], record)
  ELSE batch

\* parse_folder: the batch after the loop over the reports
RECURSIVE ParseReports(_, _, _, _)
ParseReports(batch, files, iv, col) ==
  IF files = <<>> THEN batch
  ELSE ParseReports(StoreRecord(batch, parse_dvh_file(Head(files), iv, col)),
                    Tail(files), iv, col)

parse_folder(files, iv, col) == ParseReports(<<>>, files, iv, col)

\* a parser that enters a file with the record and the cursor of the last call
EnterParseStale == [patient_data |-> patient_data, current_structure |-> current_structure]

\* parse_dvh_file starts from an empty record and no cursor
EnterParse == NewParse

\* the end of conversion_thread: the finally block
Finally ==
  /\ run_button' = "normal"
  /\ status_label' = "Done"
  /\ progress_var' = Fraction(100, 1)
  /\ pc' = "done"

\* an except block that is not followed by the finally block
RaiseWithoutFinally ==
  /\ thread_queue' = Append(thread_queue, "ERROR")
  /\ pc' = "done"
  /\ UNCHANGED widgets

\* an exception reaches the except block of conversion_thread
Raise ==
  /\ thread_queue' = Append(thread_queue, "ERROR")
  /\ Finally

\* the run button is pressed: the checks, then the start of the worker
run_conversion ==
  /\ pc = "idle"
  /\ IF input_dir = "" \/ output_dir = ""
     THEN /\ shown' = Append(shown, "Please select both an input and an output folder.")
          /\ pc' = "rejected"
          /\ UNCHANGED <<widgets, validated>>
     ELSE IF ~IsDir(input_dir) \/ ~IsDir(output_dir)
     THEN /\ shown' = Append(shown, "The specified path does not exist or is not a folder.")
          /\ pc' = "rejected"
          /\ UNCHANGED <<widgets, validated>>
     ELSE /\ validated' = <<is_patient_wise, is_structure_wise>>
          /\ IF ~is_patient_wise /\ ~is_structure_wise
             THEN /\ shown' = Append(shown, "Please select at least one output format.")
                  /\ pc' = "rejected"
                  /\ UNCHANGED widgets
             ELSE /\ run_button' = "disabled"
                  /\ status_label' = "Processing..."
                  /\ progress_var' = Fraction(0, 1)
                  /\ pc' = "start"
                  /\ UNCHANGED shown
  /\ UNCHANGED <<txt_files, config, i, returned, all_patients_data, parser, outputs, paths,
                 config_file, calls, tasks>>

\* conversion_thread reads the options and calls parse_folder, which lists the
\* reports of the input folder
ThreadStart ==
  /\ pc = "start"
  /\ status_label' = "Parsing files..."
  /\ calls' = Append(calls, "parse_folder")
  /\ \E files \in Directories : txt_files' = files
  /\ pc' = "parse"
  /\ UNCHANGED <<config, i, returned, all_patients_data, parser, outputs, paths,
                 run_button, progress_var, shown, validated, config_file, tasks>>

\* parse_folder: one turn of the loop over the reports
ParseFolderStep ==
  /\ pc = "parse"
  /\ i < Len(txt_files)
  /\ LET st == ParseLines(EnterParse, txt_files[i + 1], d_interval, DoseColIndex(dose_type)) IN
       /\ patient_data' = st.patient_data
       /\ current_structure' = st.current_structure
       /\ all_patients_data' = StoreRecord(all_patients_data, st.patient_data)
  /\ i' = i + 1
  /\ returned' = Append(returned, patient_data')
  /\ progress_var' = Fraction((i + 1) * 50, Len(txt_files))
  /\ UNCHANGED <<txt_files, config, pc, line, line_no, before, outputs, paths, run_button,
                 status_label, shown, validated, config_file, calls, tasks>>

\* parse_folder: open() or the read of the next report raises
ParseFolderRaises ==
  /\ pc = "parse"
  /\ i < Len(txt_files)
  /\ Raise
  /\ UNCHANGED <<txt_files, config, i, returned, all_patients_data, parser, written, paths,
                 shown, validated, config_file, calls, tasks>>

\* a worker that goes on to the writers whatever the batch is
ParseFolderReturnUnchecked ==
  /\ pc = "parse"
  /\ i = Len(txt_files)
  /\ calls' = Append(calls, "return parse_folder")
  /\ pc' = "tasks"
  /\ UNCHANGED <<txt_files, config, i, returned, all_patients_data, parser, written, paths,
                 shown, validated, config_file, thread_queue, widgets, tasks>>

\* parse_folder returns; conversion_thread raises on an empty batch
ParseFolderReturn ==
  /\ pc = "parse"
  /\ i = Len(txt_files)
  /\ calls' = Append(calls, "return parse_folder")
  /\ IF all_patients_data = <<>>
     THEN Raise
     ELSE /\ pc' = "tasks"
          /\ UNCHANGED <<thread_queue, widgets>>
  /\ UNCHANGED <<txt_files, config, i, returned, all_patients_data, parser, written, paths,
                 shown, validated, config_file, tasks>>

\* self.is_patient_wise.get() + self.is_structure_wise.get()
TotalTasks == (IF is_patient_wise THEN 1 ELSE 0) + (IF is_structure_wise THEN 1 ELSE 0)

\* f"({task_count}/{total_tasks}) ..."
StatusText(count, total, what) ==
  "(" \o <<"0", "1", "2">>[count + 1] \o "/" \o <<"0", "1", "2">>[total + 1] \o ") " \o what

StatusPatient == StatusText(task_count + 1, total_tasks, "Creating patient-wise CSVs...")

StatusStructure == StatusText(task_count + 1, total_tasks, "Creating structure-wise CSVs...")

\* the positions at which conversion_thread has a next statement to run
Active == {"start", "parse", "tasks", "write_patient", "write_structure", "success"}

\* a click on one of the two checkboxes while conversion_thread runs (the
\* clicks before the run button are the choice of Init)
TogglePatientWise ==
  /\ pc \in Active
  /\ is_patient_wise' = ~is_patient_wise
  /\ UNCHANGED <<txt_files, d_interval, dose_type, is_structure_wise, pc, i, returned,
                 all_patients_data, parser, outputs, paths, widgets, shown, validated, config_file,
                 calls, tasks>>

ToggleStructureWise ==
  /\ pc \in Active
  /\ is_structure_wise' = ~is_structure_wise
  /\ UNCHANGED <<txt_files, d_interval, dose_type, is_patient_wise, pc, i, returned,
                 all_patients_data, parser, outputs, paths, widgets, shown, validated, config_file,
                 calls, tasks>>

\* total_tasks = ...; task_count = 0: the worker reads the two checkboxes
ReadTotalTasks ==
  /\ pc = "tasks"
  /\ total_tasks' = TotalTasks
  /\ task_count' = 0
  /\ pc' = "write_patient"
  /\ UNCHANGED <<txt_files, config, i, returned, all_patients_data, parser, outputs, paths,
                 widgets, shown, validated, config_file, calls>>

\* if self.is_patient_wise.get(): the checkbox is read again; the argument
\* 50.0 / total_tasks is computed before write_patient_csvs is called
WritePatientCsvs ==
  /\ pc = "write_patient"
  /\ IF ~is_patient_wise
     THEN /\ pc' = "write_structure"
          /\ UNCHANGED <<written, thread_queue, widgets, calls, task_count>>
     ELSE /\ task_count' = task_count + 1
          /\ IF total_tasks = 0
             THEN /\ Raise
                  /\ UNCHANGED <<written, calls>>
             ELSE /\ written' = written \o PatientFiles(all_patients_data, dose_type)
                  /\ status_label' = StatusPatient
                  /\ calls' = calls \o <<"write_patient_csvs", "return write_patient_csvs">>
                  /\ pc' = "write_structure"
                  /\ UNCHANGED <<thread_queue, run_button, progress_var>>
  /\ UNCHANGED <<txt_files, config, i, returned, all_patients_data, parser, paths, shown, validated,
                 config_file, total_tasks>>

\* write_patient_csvs: open() raises for the k-th file; the files before it stay
WritePatientCsvsRaises ==
  /\ pc = "write_patient"
  /\ is_patient_wise
  /\ total_tasks # 0
  /\ task_count' = task_count + 1
  /\ LET files == PatientFiles(all_patients_data, dose_type) IN
       \E k \in 1..Len(files) : written' = written \o SubSeq(files, 1, k - 1)
  /\ calls' = Append(calls, "write_patient_csvs")
  /\ Raise
  /\ UNCHANGED <<txt_files, config, i, returned, all_patients_data, parser, paths, shown, validated,
                 config_file, total_tasks>>

\* if self.is_structure_wise.get(): the checkbox is read again; the argument
\* 50.0 / total_tasks * task_count is computed before write_structure_csvs is
\* called
WriteStructureCsvs ==
  /\ pc = "write_structure"
  /\ IF ~is_structure_wise
     THEN /\ pc' = "success"
          /\ UNCHANGED <<written, thread_queue, widgets, calls, task_count>>
     ELSE /\ task_count' = task_count + 1
          /\ IF total_tasks = 0
             THEN /\ Raise
                  /\ UNCHANGED <<written, calls>>
             ELSE /\ written' = written \o StructureFiles(all_patients_data, dose_type)
                  /\ status_label' = StatusStructure
                  /\ calls' = calls \o <<"write_structure_csvs", "return write_structure_csvs">>
                  /\ pc' = "success"
                  /\ UNCHANGED <<thread_queue, run_button, progress_var>>
  /\ UNCHANGED <<txt_files, config, i, returned, all_patients_data, parser, paths, shown, validated,
                 config_file, total_tasks>>

\* write_structure_csvs: open() raises for the k-th file; the files before it stay
WriteStructureCsvsRaises ==
  /\ pc = "write_structure"
  /\ is_structure_wise
  /\ total_tasks # 0
  /\ task_count' = task_count + 1
  /\ LET files == StructureFiles(all_patients_data, dose_type) IN
       \E k \in 1..Len(files) : written' = written \o SubSeq(files, 1, k - 1)
  /\ calls' = Append(calls, "write_structure_csvs")
  /\ Raise
  /\ UNCHANGED <<txt_files, config, i, returned, all_patients_data, parser, paths, shown, validated,
                 config_file, total_tasks>>

\* save_settings writes the two folders, or fails and only prints
save_settings(ok) ==
  /\ config_file' = IF ok
                    THEN <<[input_folder |-> input_dir, output_folder |-> output_dir]>>
                    ELSE config_file
  /\ calls' = calls \o <<"save_settings", "return save_settings">>

\* the settings are saved and the success message is put on the queue
ThreadSuccess ==
  /\ pc = "success"
  /\ \E ok \in BOOLEAN : save_settings(ok)
  /\ thread_queue' = Append(thread_queue, "INFO")
  /\ Finally
  /\ UNCHANGED <<txt_files, config, i, returned, all_patients_data, parser, written, paths,
                 shown, validated, tasks>>

Next ==
  \/ run_conversion
  \/ ThreadStart
  \/ ParseFolderStep
  \/ ParseFolderRaises
  \/ ParseFolderReturn
  \/ ReadTotalTasks
  \/ WritePatientCsvs
  \/ WritePatientCsvsRaises
  \/ WriteStructureCsvs
  \/ WriteStructureCsvsRaises
  \/ ThreadSuccess

\* a run during which no checkbox is clicked
Spec == Init /\ [][Next]_vars

\* a run during which the window takes clicks on the two checkboxes
NextGui ==
  \/ Next
  \/ TogglePatientWise
  \/ ToggleStructureWise

SpecGui == Init /\ [][NextGui]_vars

\* the started worker thread is scheduled: it moves on to its next position
\* or to the next report.  At every position of Active a statement of
\* conversion_thread can run (a turn of the loop or its end while parsing,
\* the call or the skip of a writer, the success message), and every step of
\* the worker changes pc or i.
WorkerMoves ==
  /\ pc \in Active
  /\ \E p \in Active \cup {"done"} : pc' = p
  /\ \E n \in 0..MaxFiles : i' = n

SpecLive == Init /\ [][Next]_vars /\ WF_<<pc, i>>(WorkerMoves)

(* ------------------- the parse of one streamed report ------------------ *)
\* parse_dvh_file has been entered; the lines of the report arrive one by one
InitParse ==
  /\ txt_files = <<>>
  /\ d_interval \in Intervals
  /\ dose_type \in DoseTypes
  /\ is_patient_wise = TRUE
  /\ is_structure_wise = TRUE
  /\ input_dir = "folder"
  /\ output_dir = "folder"
  /\ run_button = "disabled"
  /\ status_label = "Parsing files..."
  /\ progress_var = Fraction(0, 1)
  /\ shown = <<>>
  /\ config_file = <<>>
  /\ calls = <<"parse_folder">>
  /\ total_tasks = 0
  /\ task_count = 0
  /\ validated = <<TRUE, TRUE>>
  /\ pc = "parse_dvh_file"
  /\ i = 0
  /\ returned = <<>>
  /\ all_patients_data = <<>>
  /\ patient_data = NewParse.patient_data
  /\ current_structure = None
  /\ line = <<>>
  /\ line_no = 0
  /\ before = NewParse.patient_data
  /\ written = <<>>
  /\ thread_queue = <<>>

\* one turn of the loop over the lines of the report
ReadLine ==
  /\ pc = "parse_dvh_file"
  /\ line_no < MaxLines
  /\ \E raw \in Lines :
       LET st == ParseLine([patient_data |-> patient_data,
                            current_structure |-> current_structure],
                           raw, d_interval, DoseColIndex(dose_type)) IN
         /\ line' = raw
         /\ before' = patient_data
         /\ patient_data' = st.patient_data
         /\ current_structure' = st.current_structure
  /\ line_no' = line_no + 1
  /\ UNCHANGED <<txt_files, config, pc, i, returned, all_patients_data, outputs, paths,
                 widgets, shown, validated, config_file, calls, tasks>>

NextParse == ReadLine

SpecParse == InitParse /\ [][NextParse]_vars

(* =============================== claims ================================ *)
NamePTV == <<"P", "T", "V">>

Dose50  == [neg |-> FALSE, t |-> 500, r |-> 0]
Dose503 == [neg |-> FALSE, t |-> 503, r |-> 0]
Vol952  == [neg |-> FALSE, t |-> 952, r |-> 0]

\* the structures of the record under construction, and their DVH mappings
Structs == patient_data[KeyStructures]
DvhOf(structures, str_name) == DictGet(structures, str_name)[KeyDvh]

\* C1: the report `Patient ID : P1`, `Structure : PTV`, `50 10.0 95.2`,
\* `50.3 10.06 80.0` (single spaces), parsed with dose column 0 at interval
\* 0.5, yields a PTV record whose DVH maps dose 50.0 to volume 95.2 and has
\* no entry for dose 50.3.
ExampleRowRecorded ==
  (i >= 1 /\ txt_files[i] = ReportExample /\ d_interval = 5 /\ dose_type = "%") =>
    /\ DictHas(Structs, NamePTV)
    /\ Dose50 \in DOMAIN DvhOf(Structs, NamePTV)
    /\ DvhOf(Structs, NamePTV)[Dose50] = Vol952
    /\ Dose503 \notin DOMAIN DvhOf(Structs, NamePTV)

\* the distance of d to some multiple k * interval is below 1e-9
WithinTolOfMultiple(d, iv) ==
  \E k \in 0..(d.t \div iv + 1) :
    \/ d.t = k * iv /\ d.r < Tol
    \/ d.t + 1 = k * iv /\ Unit - d.r < Tol

\* the line read last is a row inside a section whose dose and volume tokens
\* are numbers; RowDose is its dose
LineTokens == SplitWs(Strip(line))
LineIsParsedRow ==
  /\ Strip(line) # <<>>
  /\ current_structure \notin {None, <<>>}
  /\ IsNumericKey(KeyOf(Strip(line)))
  /\ Len(LineTokens) > DoseColIndex(dose_type)
  /\ ParseFloat(LineTokens[DoseColIndex(dose_type) + 1]) # ValueError
  /\ ParseFloat(LineTokens[Len(LineTokens)]) # ValueError
RowDose   == ParseFloat(LineTokens[DoseColIndex(dose_type) + 1])
RowVolume == ParseFloat(LineTokens[Len(LineTokens)])

\* C2: every dose that is a key of a DVH mapping of the record lies within
\* 1e-9 of a multiple of the sampling interval (dose mod interval is within
\* 1e-9 of 0 or of the interval), and a parsed row whose dose fails that test
\* leaves the record as it was.
StoredDosesOnGrid ==
  /\ \A j \in DOMAIN Structs : \A d \in DOMAIN Structs[j].v[KeyDvh] :
       WithinTolOfMultiple(d, d_interval)
  /\ (LineIsParsedRow /\ ~WithinTolOfMultiple(RowDose, d_interval)) =>
       patient_data = before

\* C2 witness: a dose 5e-10 off the grid has been stored and the row read last
\* (dose 50.3 at interval 0.5) has been filtered out
WitnessStoredDosesOnGrid ==
  /\ pc = "parse_dvh_file"
  /\ d_interval = 5
  /\ LineIsParsedRow
  /\ ~WithinTolOfMultiple(RowDose, d_interval)
  /\ \E j \in DOMAIN Structs : \E d \in DOMAIN Structs[j].v[KeyDvh] : d.r # 0

(* ------------------------ reading the written files -------------------- *)
TxtPct  == <<"[", "%", "]">>
TxtGray == <<"[", "G", "y", "]">>
TxtDoseHeader == <<"D", "o", "s", "e", " ">> \o (IF dose_type = "%" THEN TxtPct ELSE TxtGray)
TxtVolumeColumn == <<"_", "V", "o", "l", "u", "m", "e", " ", "[", "%", "]">>

\* the nine characters \ / : * ? " < > |
NineChars == {"\\", "/", ":", "*", "?", "\"", "<", ">", "|"}

\* structure_<SanitizedName>.csv, position by position
ExpectedStructureFile(str_name) ==
  <<"s", "t", "r", "u", "c", "t", "u", "r", "e", "_">> \o
  [k \in DOMAIN str_name |-> IF str_name[k] \in NineChars THEN "_" ELSE str_name[k]]
  \o <<".", "c", "s", "v">>

ExpectedPatientFile(pid) == pid \o <<".", "c", "s", "v">>

\* the writer has been called and has returned
PatientWriterDone   == "return write_patient_csvs" \in Range(calls)
StructureWriterDone == "return write_structure_csvs" \in Range(calls)

\* the writes of one writer, as indices of the log
WritesBy(who) == {k \in DOMAIN written : written[k].by = who}

\* the rows on disk under a file name: those of the last write to that name
HasFile(name)  == \E k \in DOMAIN written : written[k].name = name
FileRows(name) ==
  LET ks == {k \in DOMAIN written : written[k].name = name} IN
    written[CHOOSE k \in ks : \A q \in ks : q <= k].rows

\* the wide table of a file starts after its last blank row
TableStart(rows) ==
  LET blanks == {k \in DOMAIN rows : rows[k] = <<>>} IN
    IF blanks = {} THEN 1 ELSE 1 + (CHOOSE k \in blanks : \A q \in blanks : q <= k)

\* the cell of the wide table under the column headed `head` in the row of dose d
Missing == [missing |-> TRUE]
CellAt(rows, head, d) ==
  LET h0   == TableStart(rows)
      cols == {c \in 2..Len(rows[h0]) : rows[h0][c] = head}
      rws  == {k \in (h0 + 1)..Len(rows) : rows[k][1] = [f |-> d]}
  IN IF cols = {} \/ rws = {} THEN Missing
     ELSE rows[CHOOSE k \in rws : TRUE][CHOOSE c \in cols : TRUE]

\* the doses of all DVH mappings of one record; of the whole batch
DosesOf(data) ==
  UNION {DOMAIN data[KeyStructures][n].v[KeyDvh] : n \in DOMAIN data[KeyStructures]}
AllDoses == UNION {DosesOf(all_patients_data[j].v) : j \in DOMAIN all_patients_data}

\* the structure names of the batch
AllStructureNames ==
  UNION {{all_patients_data[j].v[KeyStructures][n].k :
            n \in DOMAIN all_patients_data[j].v[KeyStructures]} :
         j \in DOMAIN all_patients_data}

\* the cell that holds the volume of structure str_name of record data at dose d
ExpectedCell(data, str_name, d) ==
  IF /\ DictHas(data[KeyStructures], str_name)
     /\ d \in DOMAIN DvhOf(data[KeyStructures], str_name)
  THEN [f |-> DvhOf(data[KeyStructures], str_name)[d]]
  ELSE [s |-> <<>>]

\* C3: after both writers have run over the batch, for every patient p, every
\* structure s of p and every dose d of p, the cell of p.csv under column s at
\* row d equals the cell of structure_s.csv under column p at row d.
PivotsConsistent ==
  (PatientWriterDone /\ StructureWriterDone) =>
    \A j \in DOMAIN all_patients_data :
      LET p == all_patients_data[j].k
          data == all_patients_data[j].v
      IN \A n \in DOMAIN data[KeyStructures] : \A d \in DosesOf(data) :
           LET str_name == data[KeyStructures][n].k IN
             /\ HasFile(ExpectedPatientFile(p))
             /\ HasFile(ExpectedStructureFile(str_name))
             /\ CellAt(FileRows(ExpectedPatientFile(p)), [s |-> str_name \o TxtVolumeColumn], d)
                  = CellAt(FileRows(ExpectedStructureFile(str_name)), [s |-> p], d)
             /\ CellAt(FileRows(ExpectedPatientFile(p)), [s |-> str_name \o TxtVolumeColumn], d)
                  # Missing

\* the name of the structure in a column header of the patient table
ColumnName(cell) == SubSeq(cell.s, 1, Len(cell.s) - Len(TxtVolumeColumn))

\* the wide table of the file `rows` is the table of the record `data`
IsPatientTable(rows, data) ==
  LET h0 == TableStart(rows)
      N  == Len(data[KeyStructures])
      M  == Cardinality(DosesOf(data))
  IN /\ Len(rows) - h0 = M
     /\ Len(rows[h0]) = N + 1
     /\ rows[h0][1] = [s |-> TxtDoseHeader]
     /\ \A c \in 2..(N + 1) :
          /\ rows[h0][c] = [s |-> ColumnName(rows[h0][c]) \o TxtVolumeColumn]
          /\ DictHas(data[KeyStructures], ColumnName(rows[h0][c]))
     /\ \A c \in 2..N : StrLess(ColumnName(rows[h0][c]), ColumnName(rows[h0][c + 1]))
     /\ \A m \in (h0 + 1)..Len(rows) :
          /\ Len(rows[m]) = N + 1
          /\ \E d \in DosesOf(data) : rows[m][1] = [f |-> d]
          /\ \A c \in 2..(N + 1) :
               rows[m][c] = ExpectedCell(data, ColumnName(rows[h0][c]), rows[m][1].f)
     /\ \A m \in (h0 + 1)..(Len(rows) - 1) : FloatLess(rows[m][1].f, rows[m + 1][1].f)

\* C4: for every record with N >= 1 structures and M distinct doses, the
\* wide table of the patient CSV has exactly M data rows in strictly ascending
\* dose order and exactly N structure columns in ascending code point order
\* of the names; a cell holds the volume of its structure at the dose of its
\* row and is empty exactly when the structure has no sample at that dose.
PatientTableShape ==
  PatientWriterDone =>
    \A j \in DOMAIN all_patients_data :
      LET data == all_patients_data[j].v
          mine == {k \in WritesBy("write_patient_csvs") :
                     written[k].name = ExpectedPatientFile(all_patients_data[j].k)}
      IN Len(data[KeyStructures]) >= 1 =>
           /\ Cardinality(mine) = 1
           /\ \A k \in mine : IsPatientTable(written[k].rows, data)

\* C4 witness: a patient file with three structure columns, stored in another
\* order than written, three dose rows and empty cells
WitnessPatientTableShape ==
  /\ PatientWriterDone
  /\ \E j \in DOMAIN all_patients_data :
       LET data == all_patients_data[j].v IN
         /\ Len(data[KeyStructures]) >= 3
         /\ \E n \in 1..(Len(data[KeyStructures]) - 1) :
              StrLess(data[KeyStructures][n + 1].k, data[KeyStructures][n].k)
         /\ Cardinality(DosesOf(data)) >= 3
         /\ \E k \in WritesBy("write_patient_csvs") :
              /\ written[k].name = ExpectedPatientFile(all_patients_data[j].k)
              /\ \E m \in DOMAIN written[k].rows :
                   /\ Len(written[k].rows[m]) >= 3
                   /\ written[k].rows[m][2] = [s |-> <<>>]
                   /\ "f" \in DOMAIN written[k].rows[m][1]
                   /\ "f" \in DOMAIN written[k].rows[m][3]

\* the structure names that a structure file name stands for
StructuresOf(name) == {sn \in AllStructureNames : ExpectedStructureFile(sn) = name}

\* a structure has a DVH sample in some record of the batch
HasSamples(sn) ==
  \E j \in DOMAIN all_patients_data :
    /\ DictHas(all_patients_data[j].v[KeyStructures], sn)
    /\ DOMAIN DvhOf(all_patients_data[j].v[KeyStructures], sn) # {}

\* C8: the file of a structure is named structure_<SanitizedName>.csv, the
\* name with each of \ / : * ? " < > | replaced by _ and every other
\* character unchanged in its position; PTV/1:A gives structure_PTV_1_A.csv.
StructureFileNames ==
  StructureWriterDone =>
    /\ \A k \in WritesBy("write_structure_csvs") : StructuresOf(written[k].name) # {}
    /\ \A sn \in AllStructureNames : HasSamples(sn) =>
         \E k \in WritesBy("write_structure_csvs") :
           written[k].name = ExpectedStructureFile(sn)
    /\ Cardinality(WritesBy("write_structure_csvs"))
         = Cardinality({sn \in AllStructureNames : HasSamples(sn)})
    /\ (<<"P", "T", "V", "/", "1", ":", "A">> \in AllStructureNames) =>
         \E k \in WritesBy("write_structure_csvs") : written[k].name =
           <<"s", "t", "r", "u", "c", "t", "u", "r", "e", "_",
             "P", "T", "V", "_", "1", "_", "A", ".", "c", "s", "v">>

\* C8 witness: the files of PTV/1:A and of a name with a backslash are written
WitnessStructureFileNames ==
  /\ StructureWriterDone
  /\ \E k \in WritesBy("write_structure_csvs") : written[k].name =
       <<"s", "t", "r", "u", "c", "t", "u", "r", "e", "_",
         "P", "T", "V", "_", "1", "_", "A", ".", "c", "s", "v">>
  /\ \E k \in WritesBy("write_structure_csvs") : written[k].name =
       <<"s", "t", "r", "u", "c", "t", "u", "r", "e", "_",
         "a", "_", "_", "_", "b", ".", "c", "s", "v">>

\* C9: for every structure name that occurs in the structures mapping of a
\* record of the batch, write_structure_csvs writes a file, also when the
\* DVH mapping of the structure is empty in every record that has it.
EveryStructureHasFile ==
  StructureWriterDone =>
    \A sn \in AllStructureNames :
      \E k \in WritesBy("write_structure_csvs") : written[k].name = ExpectedStructureFile(sn)

\* the rows of a structure file are the table of the structure str_name
IsStructureTable(rows, str_name) ==
  LET header == rows[1]
      P      == Len(all_patients_data)
  IN /\ header[1] = [s |-> TxtDoseHeader]
     /\ Len(header) = P + 1
     /\ \A j \in DOMAIN all_patients_data :
          \E c \in 2..(P + 1) : header[c] = [s |-> all_patients_data[j].k]
     /\ \A c \in 2..P : StrLess(header[c].s, header[c + 1].s)
     /\ Len(rows) - 1 = Cardinality(AllDoses)
     /\ \A m \in 2..Len(rows) :
          /\ Len(rows[m]) = P + 1
          /\ \E d \in AllDoses : rows[m][1] = [f |-> d]
          /\ \A c \in 2..(P + 1) :
               rows[m][c] = ExpectedCell(DictGet(all_patients_data, header[c].s),
                                         str_name, rows[m][1].f)
     /\ \A m \in 2..(Len(rows) - 1) : FloatLess(rows[m][1].f, rows[m + 1][1].f)

\* C10: every structure CSV has the header `Dose <unit>` followed by every
\* patient identifier of the batch exactly once in ascending order, and one
\* row per dose of the batch-wide union in ascending numeric order; the cell
\* of patient p at dose d holds the volume of p for that structure at d, or
\* is empty when p has no sample at exactly d.
StructureTableShape ==
  StructureWriterDone =>
    /\ \A k \in WritesBy("write_structure_csvs") :
         \E sn \in StructuresOf(written[k].name) : IsStructureTable(written[k].rows, sn)
    /\ \A sn \in AllStructureNames : HasSamples(sn) =>
         \E k \in WritesBy("write_structure_csvs") :
           /\ written[k].name = ExpectedStructureFile(sn)
           /\ IsStructureTable(written[k].rows, sn)

\* C10 witness: a structure file for a batch whose identifiers were stored in
\* descending order, with a patient that lacks the structure, several doses
\* and both filled and empty cells
WitnessStructureTableShape ==
  /\ StructureWriterDone
  /\ Len(all_patients_data) >= 2
  /\ StrLess(all_patients_data[2].k, all_patients_data[1].k)
  /\ Cardinality(AllDoses) >= 2
  /\ \E k \in WritesBy("write_structure_csvs") :
       /\ \E sn \in StructuresOf(written[k].name) :
            \E j \in DOMAIN all_patients_data :
              ~DictHas(all_patients_data[j].v[KeyStructures], sn)
       /\ \E m \in 2..Len(written[k].rows) : \E c \in 2..Len(written[k].rows[m]) :
            "f" \in DOMAIN written[k].rows[m][c]
       /\ \E m \in 2..Len(written[k].rows) : \E c \in 2..Len(written[k].rows[m]) :
            written[k].rows[m][c] = [s |-> <<>>]

\* a report has a line whose classified key is Patient ID
HasPatientIdLine(report) ==
  \E k \in DOMAIN report :
    Strip(report[k]) # <<>> /\ KeyOf(Strip(report[k])) = KeyPatientID

\* the records returned for the reports from the k-th on that have a line
\* whose classified key is Patient ID
RECURSIVE RecordsWithIdLine(_)
RecordsWithIdLine(k) ==
  IF k > i THEN <<>>
  ELSE (IF HasPatientIdLine(txt_files[k]) THEN <<returned[k]>> ELSE <<>>)
       \o RecordsWithIdLine(k + 1)

\* the batch that results from storing the records recs one after the other
RECURSIVE BatchOf(_, _)
BatchOf(batch, recs) ==
  IF recs = <<>> THEN batch ELSE BatchOf(StoreRecord(batch, Head(recs)), Tail(recs))

\* C5: a report without a line whose classified key is Patient ID adds no
\* entry to the batch and changes none: the batch equals the batch obtained
\* from the same reports without the reports that have no such line.
ReportsWithoutIdAddNothing ==
  all_patients_data = BatchOf(<<>>, RecordsWithIdLine(1))

\* C5 witness: the report parsed last has no Patient ID line and the batch
\* held a record before it
WitnessReportsWithoutIdAddNothing ==
  /\ i >= 2
  /\ ~HasPatientIdLine(txt_files[i])
  /\ HasPatientIdLine(txt_files[i - 1])
  /\ all_patients_data # <<>>

\* the row read last is retained: it is a parsed row with a dose on the grid
LineIsRetainedRow == LineIsParsedRow /\ WithinTolOfMultiple(RowDose, d_interval)

\* C6: a retained row stores its volume under its dose in the DVH mapping of
\* the current structure, replacing the volume an earlier row of the section
\* stored for the same numeric dose, and leaves every other dose as it was.
LaterRowWins ==
  LineIsRetainedRow =>
    LET new == DvhOf(Structs, current_structure)
        old == DvhOf(before[KeyStructures], current_structure)
    IN /\ RowDose \in DOMAIN new
       /\ new[RowDose] = RowVolume
       /\ DOMAIN new = DOMAIN old \cup {RowDose}
       /\ \A d \in DOMAIN old \ {RowDose} : new[d] = old[d]

\* C6 witness: the retained row read last repeats a dose of the section with
\* another volume
WitnessLaterRowWins ==
  /\ pc = "parse_dvh_file"
  /\ LineIsRetainedRow
  /\ RowDose \in DOMAIN DvhOf(before[KeyStructures], current_structure)
  /\ DvhOf(before[KeyStructures], current_structure)[RowDose] # RowVolume

\* the record list recs keeps, per identifier, exactly its last record
KeepsLast(batch, recs) ==
  /\ \A j1, j2 \in DOMAIN batch : batch[j1].k = batch[j2].k => j1 = j2
  /\ \A j \in DOMAIN batch :
       LET ks == {k \in DOMAIN recs :
                    KeyPatientID \in DOMAIN recs[k] /\ recs[k][KeyPatientID] = batch[j].k}
       IN /\ ks # {}
          /\ batch[j].v = recs[CHOOSE k \in ks : \A q \in ks : q <= k]
  /\ \A k \in DOMAIN recs :
       KeyPatientID \in DOMAIN recs[k] =>
         \E j \in DOMAIN batch : batch[j].k = recs[k][KeyPatientID]

\* C7: the batch holds at most one record per identifier, and the record of
\* an identifier is exactly the record of the last parsed report with that
\* identifier.
BatchKeepsLastReport == Len(returned) = i /\ KeepsLast(all_patients_data, returned)

\* C7 witness: two reports with the same identifier and different records
\* (the earlier one with a name and DVH samples) have been parsed
WitnessBatchKeepsLastReport ==
  /\ i = 2
  /\ LET recs == returned IN
       /\ KeyPatientID \in DOMAIN recs[1]
       /\ KeyPatientID \in DOMAIN recs[2]
       /\ recs[1][KeyPatientID] = recs[2][KeyPatientID]
       /\ KeyPatientName \in DOMAIN recs[1]
       /\ KeyPatientName \notin DOMAIN recs[2]
       /\ DosesOf(recs[1]) # {}

(* --------------------- the layout of a patient file -------------------- *)
LblPatientName == <<"P", "a", "t", "i", "e", "n", "t", " ", "N", "a", "m", "e">>
LblPatientID   == <<"P", "a", "t", "i", "e", "n", "t", " ", "I", "D">>
LblPrescribed  ==
  <<"P", "r", "e", "s", "c", "r", "i", "b", "e", "d", " ", "d", "o", "s", "e", " ",
    "[", "G", "y", "]">>
LblStats ==
  <<<<"S", "t", "r", "u", "c", "t", "u", "r", "e", " ", "N", "a", "m", "e">>,
    <<"V", "o", "l", "u", "m", "e", " ", "[", "c", "m", "^3", "]">>,
    <<"M", "i", "n", " ", "D", "o", "s", "e", " ", "[", "%", "]">>,
    <<"M", "a", "x", " ", "D", "o", "s", "e", " ", "[", "%", "]">>,
    <<"M", "e", "a", "n", " ", "D", "o", "s", "e", " ", "[", "%", "]">>>>

\* the cell of field key of the mapping d: its text, or the empty cell
FieldCell(d, key) == IF key \in DOMAIN d THEN [s |-> d[key]] ELSE [s |-> <<>>]

\* the record of the structure called str_name
StructureOf(data, str_name) ==
  LET ss == data[KeyStructures] IN
    ss[CHOOSE n \in DOMAIN ss : ss[n].k = str_name].v

\* rows is a patient file of the record data: metadata, blank, summary header,
\* summary rows, blank, DVH header, DVH rows
IsPatientLayout(rows, data) ==
  LET N == Len(data[KeyStructures])
      M == Cardinality(DosesOf(data))
  IN /\ Len(rows) = 3 + 1 + 1 + N + 1 + 1 + M
     /\ rows[1] = <<[s |-> LblPatientName], FieldCell(data, LblPatientName)>>
     /\ rows[2] = <<[s |-> LblPatientID], FieldCell(data, LblPatientID)>>
     /\ rows[3] = <<[s |-> LblPrescribed], FieldCell(data, LblPrescribed)>>
     /\ rows[4] = <<>>
     /\ rows[5] = [c \in 1..5 |-> [s |-> LblStats[c]]]
     /\ \A n \in 1..N :
          /\ Len(rows[5 + n]) = 5
          /\ DictHas(data[KeyStructures], rows[5 + n][1].s)
          /\ \A c \in 2..5 :
               rows[5 + n][c] = FieldCell(StructureOf(data, rows[5 + n][1].s), LblStats[c])
     /\ \A n \in 1..(N - 1) : StrLess(rows[5 + n][1].s, rows[6 + n][1].s)
     /\ rows[6 + N] = <<>>
     /\ Len(rows[7 + N]) = N + 1
     /\ rows[7 + N][1] = [s |-> TxtDoseHeader]
     /\ \A m \in (8 + N)..Len(rows) :
          /\ Len(rows[m]) = N + 1
          /\ \E d \in DosesOf(data) : rows[m][1] = [f |-> d]

\* the record of the batch that the patient file called name was written for
RecordsNamed(name) ==
  {j \in DOMAIN all_patients_data : ExpectedPatientFile(all_patients_data[j].k) = name}

\* C11: every patient CSV written by write_patient_csvs consists, in this
\* order, of three metadata rows (name, identifier, prescribed dose), a blank
\* row, the summary header, one summary row per structure in ascending code
\* point order of the names, a blank row, the DVH header and the DVH rows; a
\* missing patient field or statistic is an empty cell in a row that is there.
PatientFileLayout ==
  \A k \in WritesBy("write_patient_csvs") :
    /\ RecordsNamed(written[k].name) # {}
    /\ \A j \in RecordsNamed(written[k].name) :
         IsPatientLayout(written[k].rows, all_patients_data[j].v)

\* C11 witness: a patient file has been written for a record without name
\* that has two structures, one of them with a statistic the other lacks
WitnessPatientFileLayout ==
  \E k \in WritesBy("write_patient_csvs") :
    \E j \in RecordsNamed(written[k].name) :
      LET data == all_patients_data[j].v IN
        /\ LblPatientName \notin DOMAIN data
        /\ Len(data[KeyStructures]) >= 2
        /\ \E n1, n2 \in DOMAIN data[KeyStructures] :
             /\ LblStats[2] \in DOMAIN data[KeyStructures][n1].v
             /\ LblStats[2] \notin DOMAIN data[KeyStructures][n2].v

(* ----------------------- which patients get a file --------------------- *)
\* the identifiers of the records of the batch with at least one structure
PatientsWithStructures ==
  {all_patients_data[j].k : j \in {q \in DOMAIN all_patients_data :
                                     all_patients_data[q].v[KeyStructures] # <<>>}}

\* C12: write_patient_csvs writes <PatientID>.csv for exactly the records of
\* the batch with at least one structure, one file each; a record without
\* structures gets no file and raises nothing, so a batch of such records
\* only lets the writer return, and the other records are written.
PatientsWithoutStructuresSkipped ==
  /\ PatientWriterDone =>
       /\ {written[k].name : k \in WritesBy("write_patient_csvs")}
            = {ExpectedPatientFile(pid) : pid \in PatientsWithStructures}
       /\ Cardinality(WritesBy("write_patient_csvs")) = Cardinality(PatientsWithStructures)
  /\ ("write_patient_csvs" \in Range(calls) /\ PatientsWithStructures = {}) =>
       /\ PatientWriterDone
       /\ WritesBy("write_patient_csvs") = {}

\* C12 witness: the writer has returned for a batch whose first record has no
\* structure and whose second record has one, and has written one file
WitnessPatientsWithoutStructuresSkipped ==
  /\ PatientWriterDone
  /\ Len(all_patients_data) = 2
  /\ all_patients_data[1].v[KeyStructures] = <<>>
  /\ all_patients_data[2].v[KeyStructures] # <<>>
  /\ Cardinality(WritesBy("write_patient_csvs")) = 1

(* ------------------------- the checks of the run ----------------------- *)
\* the configuration run_conversion must refuse: the two folders, and the
\* checkboxes as they are when the run button is pressed
BadConfiguration ==
  \/ input_dir = ""
  \/ output_dir = ""
  \/ input_dir # "folder"
  \/ output_dir # "folder"
  \/ IF validated = <<>> THEN ~is_patient_wise /\ ~is_structure_wise
     ELSE ~validated[1] /\ ~validated[2]

\* C13: with an empty input or output path, a path that is not an existing
\* folder, or no output format selected, run_conversion shows one error
\* dialog and returns: the worker is never started, nothing is parsed or
\* written, nothing is queued, and button, status and progress stay as they
\* were.
BadConfigurationRejected ==
  BadConfiguration =>
    /\ pc \in {"idle", "rejected"}
    /\ pc = "rejected" => Len(shown) = 1
    /\ calls = <<>>
    /\ i = 0 /\ returned = <<>> /\ all_patients_data = <<>>
    /\ written = <<>>
    /\ thread_queue = <<>>
    /\ config_file = <<>>
    /\ run_button = "normal"
    /\ status_label = "Ready"
    /\ progress_var = [n |-> 0, d |-> 1]

\* C13 witness: both folders exist, no output format is selected, and the run
\* button has been pressed
WitnessBadConfigurationRejected ==
  /\ pc = "rejected"
  /\ input_dir = "folder" /\ output_dir = "folder"
  /\ ~is_patient_wise /\ ~is_structure_wise
  /\ Len(shown) = 1

(* ---------------------------- the empty batch -------------------------- *)
\* the functions the worker has called
Called(f) == f \in Range(calls)

\* C14: once every report of the folder has been read, parse_folder returns
\* instead of raising; when the batch it returns is empty (no report, or no
\* report with an identifier), every report has been parsed, the worker has
\* put exactly one ERROR message on the queue, has called neither writer and
\* no file has been written.
EmptyBatchFailsOnce ==
  /\ (pc \notin {"idle", "rejected", "start", "parse"} /\ i = Len(txt_files)) =>
       Called("return parse_folder")
  /\ (Called("return parse_folder") /\ all_patients_data = <<>>) =>
       /\ i = Len(txt_files)
       /\ Len(returned) = Len(txt_files)
       /\ \A k \in DOMAIN returned : LblPatientID \notin DOMAIN returned[k]
       /\ pc = "done"
       /\ thread_queue = <<"ERROR">>
       /\ ~Called("write_patient_csvs")
       /\ ~Called("write_structure_csvs")
       /\ written = <<>>

\* C14 witness: two reports without identifier have been parsed and the run
\* has ended with the failure
WitnessEmptyBatchFailsOnce ==
  /\ Called("return parse_folder")
  /\ Len(returned) = 2
  /\ all_patients_data = <<>>
  /\ DosesOf(returned[2]) # {}
  /\ thread_queue = <<"ERROR">>

(* ---------------------------- I/O failures ----------------------------- *)
\* f was called and raised instead of returning
RaisedIn(f) == pc = "done" /\ Called(f) /\ ~Called("return " \o f)

IoFailed ==
  \/ RaisedIn("parse_folder")
  \/ RaisedIn("write_patient_csvs")
  \/ RaisedIn("write_structure_csvs")

\* the state of a run that an I/O failure has ended
EndsInSingleFailure ==
  /\ thread_queue = <<"ERROR">>
  /\ ~Called("save_settings")
  /\ config_file = <<>>
  /\ RaisedIn("parse_folder") =>
       /\ Len(returned) = i /\ i < Len(txt_files)
       /\ ~Called("write_patient_csvs") /\ ~Called("write_structure_csvs")
       /\ written = <<>>
  /\ RaisedIn("write_patient_csvs") =>
       /\ ~Called("write_structure_csvs")
       /\ WritesBy("write_structure_csvs") = {}

\* the state of a run that has ended
RunEnded ==
  /\ pc = "done"
  /\ thread_queue \in {<<"INFO">>, <<"ERROR">>}
  /\ run_button = "normal"

\* C15: a failure to read a report or to write a file ends the run with one
\* ERROR message and no INFO message, no report is parsed and no writer is
\* called after it, and the settings are not saved; every run that starts
\* the worker ends, with exactly one message on the queue and the run button
\* enabled again, and nothing happens after the end.
IoFailureEndsRun ==
  /\ [](IoFailed => EndsInSingleFailure)
  /\ [](pc = "done" => RunEnded)
  /\ [][pc = "done" => pc' = "done" /\ UNCHANGED vars]_vars
  /\ (pc = "start") ~> RunEnded

\* C15 witness: the patient files are written and write_structure_csvs has
\* failed at its second file
WitnessIoFailureEndsRun ==
  /\ RaisedIn("write_structure_csvs")
  /\ Called("return write_patient_csvs")
  /\ WritesBy("write_patient_csvs") # {}
  /\ Cardinality(WritesBy("write_structure_csvs")) = 1
  /\ thread_queue = <<"ERROR">>

LastKey == KeyOf(Strip(line))
LastVal == ValOf(Strip(line))

\* the line read last is a statistics line; a row with numeric key whose
\* dose and volume parse and whose dose is on the grid
LineIsStatistic == Strip(line) # <<>> /\ LastKey \in {LblStats[c] : c \in 2..5}
LineIsRowToKeep ==
  /\ Strip(line) # <<>>
  /\ IsNumericKey(LastKey)
  /\ Len(LineTokens) > DoseColIndex(dose_type)
  /\ RowDose # ValueError
  /\ RowVolume # ValueError
  /\ WithinTolOfMultiple(RowDose, d_interval)

\* the structures of the record other than str_name are as before the line
OthersUntouched(str_name) ==
  \A n \in DOMAIN before[KeyStructures] :
    before[KeyStructures][n].k # str_name =>
      /\ DictHas(Structs, before[KeyStructures][n].k)
      /\ StructureOf(patient_data, before[KeyStructures][n].k) = before[KeyStructures][n].v

\* C17: a Structure line with value v (the empty value of a bare header
\* included) makes v the section and its record an empty DVH mapping without
\* statistics; a statistics line or retained row is stored in the record of
\* the section it lies in, whatever the name, and in no other record; before
\* the first Structure line it is stored nowhere.
SectionsHoldTheirLines ==
  /\ (Strip(line) # <<>> /\ LastKey = KeyStructure) =>
       /\ current_structure = LastVal
       /\ DictHas(Structs, LastVal)
       /\ StructureOf(patient_data, LastVal) = (KeyDvh :> <<>>)
       /\ OthersUntouched(LastVal)
  /\ (LineIsStatistic /\ current_structure # None) =>
       /\ LastKey \in DOMAIN StructureOf(patient_data, current_structure)
       /\ StructureOf(patient_data, current_structure)[LastKey] = LastVal
       /\ OthersUntouched(current_structure)
  /\ (LineIsRowToKeep /\ current_structure # None) =>
       /\ RowDose \in DOMAIN DvhOf(Structs, current_structure)
       /\ DvhOf(Structs, current_structure)[RowDose] = RowVolume
       /\ OthersUntouched(current_structure)
  /\ ((LineIsStatistic \/ LineIsRowToKeep) /\ current_structure = None) =>
       patient_data = before

(* ------------------------- rows that do not parse ---------------------- *)
\* raw is a numeric row whose dose token or last token is no number, or that
\* has too few tokens for the dose column
IsBadRow(raw) ==
  LET tokens == SplitWs(Strip(raw))
      col    == DoseColIndex(dose_type)
  IN /\ Strip(raw) # <<>>
     /\ IsNumericKey(KeyOf(Strip(raw)))
     /\ \/ Len(tokens) <= col
        \/ ParseFloat(tokens[col + 1]) = ValueError
        \/ ParseFloat(tokens[Len(tokens)]) = ValueError

\* C18: a numeric row inside a structure section whose dose token or last
\* token does not parse as a number, or that is too short for the dose
\* column, is discarded: the record and the cursor after the row are those
\* before it, so the lines after it are parsed as if the row were absent.
BadRowsChangeNothing ==
  [][(current_structure # None /\ IsBadRow(line')) =>
       /\ patient_data' = patient_data
       /\ current_structure' = current_structure]_vars

\* C18 witness: a row too short for the absolute dose column has been read in
\* a section that holds a sample, and the record is the one before the row
WitnessBadRowsChangeNothing ==
  /\ pc = "parse_dvh_file"
  /\ dose_type = "Gy"
  /\ IsBadRow(line)
  /\ Len(SplitWs(Strip(line))) = 1
  /\ current_structure \notin {None, <<>>}
  /\ DosesOf(patient_data) # {}
  /\ patient_data = before

(* --------------------------- the classifier ---------------------------- *)
Blank == {" ", "\t"}

\* t without its leading and trailing blanks
Trimmed(t) ==
  LET inked == {k \in DOMAIN t : t[k] \notin Blank} IN
    IF inked = {} THEN <<>>
    ELSE SubSeq(t, CHOOSE a \in inked : \A k \in inked : a <= k,
                   CHOOSE b \in inked : \A k \in inked : k <= b)

\* the first position from p on that holds no blank (Len(s) + 1: none)
NextInk(s, p) ==
  LET inked == {k \in p..Len(s) : s[k] \notin Blank} IN
    IF inked = {} THEN Len(s) + 1 ELSE CHOOSE a \in inked : \A k \in inked : a <= k

\* a separator starts at p: blanks and then a colon, or two blanks
SeparatorAt(s, p) ==
  \/ (NextInk(s, p) <= Len(s) /\ s[NextInk(s, p)] = ":")
  \/ (p + 1 <= Len(s) /\ s[p] \in Blank /\ s[p + 1] \in Blank)

\* the pair a line is expected to classify to
ExpectedPair(s) ==
  LET starts == {p \in 1..Len(s) : SeparatorAt(s, p)} IN
    IF starts = {} THEN <<s, <<>>>>
    ELSE LET p == CHOOSE a \in starts : \A k \in starts : a <= k
             q == NextInk(s, p)
         IN <<Trimmed(SubSeq(s, 1, p - 1)),
              Trimmed(SubSeq(s, IF s[q] = ":" THEN q + 1 ELSE q, Len(s)))>>

\* C19: the classifier splits a non-empty trimmed line at most once, at the
\* leftmost position where blanks-colon-blanks or two or more blanks match:
\* the key is the trimmed text left of it and the value the trimmed rest,
\* later separators included; without a match the key is the whole line and
\* the value is empty; K : v and K<two blanks>v classify to the same pair.
ClassifierSplitsOnce ==
  LET s == Trimmed(line) IN
    s # <<>> =>
      /\ <<LastKey, LastVal>> = ExpectedPair(s)
      /\ (LastVal # <<>> /\ LastVal[1] # ":") =>
           /\ KeyOf(LastKey \o <<" ", ":", " ">> \o LastVal) = LastKey
           /\ ValOf(LastKey \o <<" ", ":", " ">> \o LastVal) = LastVal
           /\ KeyOf(LastKey \o <<" ", " ">> \o LastVal) = LastKey
           /\ ValOf(LastKey \o <<" ", " ">> \o LastVal) = LastVal
           /\ KeyOf(LastKey \o <<" ", "\t", " ">> \o LastVal) = LastKey
           /\ ValOf(LastKey \o <<" ", "\t", " ">> \o LastVal) = LastVal

\* C19 witness: a line with blanks before and after its colon and with two
\* blanks and a colon inside its value has been classified
WitnessClassifierSplitsOnce ==
  /\ pc = "parse_dvh_file"
  /\ line = LnNameSpaced
  /\ LastKey = LblPatientName
  /\ LastVal = <<"A", " ", " ", "B", " ", ":", " ", "C">>

(* --------------------------- output file names ------------------------- *)
\* C20: in a run that produces both pivots no two outputs are written to the
\* same file name: distinct structure names do not share a structure file,
\* distinct patients do not share a patient file, and no patient file has
\* the name of a structure file, so no output is overwritten.
NoOutputOverwritten ==
  (PatientWriterDone /\ StructureWriterDone) =>
    /\ \A k1, k2 \in WritesBy("write_structure_csvs") :
         written[k1].name = written[k2].name => k1 = k2
    /\ \A k1, k2 \in WritesBy("write_patient_csvs") :
         written[k1].name = written[k2].name => k1 = k2
    /\ \A k1 \in WritesBy("write_patient_csvs"), k2 \in WritesBy("write_structure_csvs") :
         written[k1].name # written[k2].name


(* ----------------------- clicks during the run ------------------------- *)
\* the success message is on the queue
Succeeded == "INFO" \in Range(thread_queue)

\* the run has failed in conversion_thread itself: parse_folder has returned
\* a batch that is not empty and no writer has raised
FailedBetweenCalls ==
  /\ pc = "done"
  /\ "ERROR" \in Range(thread_queue)
  /\ Called("return parse_folder")
  /\ all_patients_data # <<>>
  /\ ~RaisedIn("write_patient_csvs")
  /\ ~RaisedIn("write_structure_csvs")

\* C21: whatever clicks on the two checkboxes interleave with the worker
\* after run_conversion has validated them, a run that puts the INFO message
\* on the queue has called at least one of write_patient_csvs and
\* write_structure_csvs, the writers it has called are the pivots
\* run_conversion has validated, and no click makes the run fail: a run
\* fails only on an empty batch or inside parse_folder or a writer.
PivotsFixedForRun ==
  /\ Succeeded => (Called("write_patient_csvs") \/ Called("write_structure_csvs"))
  /\ Succeeded =>
       /\ Called("write_patient_csvs") <=> validated[1]
       /\ Called("write_structure_csvs") <=> validated[2]
  /\ ~FailedBetweenCalls

(* ------------------------ the two source variants ---------------------- *)
\* the writes of one writer, in the order of writing
WritesOf(who) == SelectSeq(written, LAMBDA w : w.by = who)

\* the folder after a sequence of writes: each file holds its last write
Disk(files) ==
  {[name |-> files[k].name, rows |-> files[k].rows] :
     k \in {n \in DOMAIN files : \A m \in DOMAIN files : m > n => files[m].name # files[n].name}}

\* C22: on the batch parse_folder returns for a directory, whatever the order
\* of its reports, the sampling interval and the dose unit, the writers of
\* dvh2_csv_improved.py leave the same files with the same contents as the
\* writers of DVH-Extractor.py have left, the order of the patient columns of
\* every structure CSV included.
VariantsEquivalent ==
  /\ PatientWriterDone =>
       Disk(WritesOf("write_patient_csvs")) = Disk(PatientFiles(all_patients_data, dose_type))
  /\ StructureWriterDone =>
       Disk(WritesOf("write_structure_csvs"))
         = Disk(StructureFilesImproved(all_patients_data, dose_type))
====
